---- MODULE Spec2Model ----
(***************************************************************************)
(* file-census: three command line pipelines over a directory tree.        *)
(*   file_census.py            scan_folder -> create_csv_report -> main    *)
(*   downloads_weekly_review.py scan_downloads_folder -> analyze_files ->  *)
(*                              generate_markdown_report -> main           *)
(*   summary_report.py         read_csv_data -> analyze_data ->            *)
(*                              generate_markdown_report                   *)
(* Spec      : the two scanners and their main(), one traversal step per   *)
(*             action, filesystem calls that may raise, user interrupts.   *)
(* SpecAgg   : analyze_files and analyze_data over bounded record lists.   *)
(* SpecRender: the table rows of the two Markdown reports.                 *)
(* SpecTruncate: truncate_filename over bounded file names.                *)
(* SpecCsv   : the CSV text create_csv_report writes, character by         *)
(*             character, read back by read_csv_data.                      *)
(***************************************************************************)
EXTENDS Integers, Sequences, FiniteSets, TLC

\* ------------------------------------------------------------------ bounds
NumEntries == 5
Fanout == 2
MaxSize == 1

\* --------------------------------------------------------------- variables
VARIABLES
    program,          \* which entry point runs: "census" | "weekly"
    show_progress,    \* file_census --quiet switches it off
    rootKind,         \* the scan root: "absent" | "file" | "dir"
    kind,             \* every path below the root: "absent" | "file" | "dir"
    st_size,          \* stat().st_size of every path
    st_mtime,         \* stat().st_mtime of every path, in seconds
    now,              \* datetime.now().timestamp() when analyze_files runs
    pc,               \* where main() is
    listing,          \* what the running rglob()/iterdir() iterator still yields
    file_count,       \* scan_folder: the counting pass's total
    processed_count,  \* scan_folder: records yielded so far
    yielded,          \* scan_folder: the records it has yielded, in order
    file_info,        \* scan_folder: the record handed to the consumer, or <<>>
    files_written,    \* create_csv_report: rows written
    outfile,          \* the output CSV path: [exists, open, rows]
    files_data,       \* scan_downloads_folder: its file records
    subfolders_data,  \* scan_downloads_folder: its folder records
    counted,          \* scan_downloads_folder: the files each subfolder's loop counted
    analysis,         \* the dictionary analyze_files returned, <<>> before
    csv_data,         \* summary_report: the rows read_csv_data returned
    summary,          \* summary_report: the dictionary analyze_data returned, <<>> before
    percentages,      \* summary_report: the percentage of every table row rendered
    exitStatus,       \* the process's exit status, -1 while it runs
    message,          \* the last diagnostic line printed
    interrupted,      \* where a KeyboardInterrupt arrived, "none" if none did
    lastRaise,        \* the exception the last filesystem call raised: [call, err]
    faulted,          \* the paths on which a filesystem call has raised
    filename,         \* a file or folder name, as a sequence of characters
    shown,            \* truncate_filename(filename)
    shown_again,      \* truncate_filename(shown)
    row,              \* one rendered Markdown table row
    columns,          \* the number of columns of that row's table
    csvfile           \* the characters of the CSV file the census wrote

scanVars == <<show_progress, rootKind, kind, st_size, st_mtime, listing, file_count,
              processed_count, yielded, file_info, files_written, outfile, counted,
              exitStatus, message, interrupted, lastRaise, faulted>>
aggVars == <<files_data, subfolders_data, now, analysis, csv_data, summary, percentages>>
textVars == <<filename, shown, shown_again, row, columns, csvfile>>
vars == <<program, pc, scanVars, aggVars, textVars>>

\* -------------------------------------------------------------- filesystem
Root == 0
Entries == 1..NumEntries

\* The shape of the tree: every directory has room for Fanout entries, those of
\* path d being d * Fanout + 1 .. d * Fanout + Fanout.
Parent(e) == (e - 1) \div Fanout

Kinds == {"absent", "file", "dir"}

\* A path exists only inside an existing directory.
WellFormed(rk, k) ==
    \A e \in Entries :
        k[e] # "absent" =>
            IF Parent(e) = Root THEN rk = "dir" ELSE k[Parent(e)] = "dir"

\* The ascending sequence of the members of a finite set of integers.
RECURSIVE SetToSeq(_)
SetToSeq(S) ==
    IF S = {} THEN <<>>
    ELSE LET m == CHOOSE x \in S : \A y \in S : x <= y
         IN <<m>> \o SetToSeq(S \ {m})

RECURSIVE Flatten(_)
Flatten(ss) == IF ss = <<>> THEN <<>> ELSE Head(ss) \o Flatten(Tail(ss))

Children(d) == {e \in Entries : Parent(e) = d /\ kind[e] # "absent"}

\* Path.iterdir(): the entries of one directory.
iterdir(d) == SetToSeq(Children(d))

rglobShallow(d) == iterdir(d)

\* Path.rglob('*'): every entry below d; a directory's entries come together,
\* then those of each of its subdirectories, recursively.
RECURSIVE rglob(_)
rglob(d) ==
    LET subdirs == SetToSeq({e \in Children(d) : kind[e] = "dir"})
    IN iterdir(d) \o Flatten([i \in 1..Len(subdirs) |-> rglob(subdirs[i])])

is_file(e) == kind[e] = "file"
is_dir(e) == kind[e] = "dir"

\* What a filesystem call on one path does: return, or raise.
Outcomes == {"ok", "PermissionError", "OSError"}
\* Under "except (OSError, PermissionError)" the two are handled alike.
Caught == {"ok", "OSError"}
NoRaise == [call |-> "none", err |-> "none"]
Raise(c, o) == IF o = "ok" THEN NoRaise ELSE [call |-> c, err |-> o]

RECURSIVE SumSizes(_)
SumSizes(S) ==
    IF S = {} THEN 0
    ELSE LET x == CHOOSE y \in S : TRUE IN st_size[x] + SumSizes(S \ {x})

SeqRange(s) == {s[i] : i \in 1..Len(s)}


\* ------------------------------------------------------------- formatting
\* A float that is a ratio of integers, as Python's true division gives it; a zero
\* denominator stands for the ZeroDivisionError the division raises.
TrueDiv(a, b) == [num |-> a, den |-> b]
Whole(n) == [num |-> n, den |-> 1]

RECURSIVE Pow1024(_)
Pow1024(i) == IF i = 0 THEN 1 ELSE 1024 * Pow1024(i - 1)

size_names == <<"B", "KB", "MB", "GB", "TB">>

\* f"{x:.1f}" of a non-negative ratio n/d, in tenths: the nearest tenth, a tie going
\* to the even one (the ratios here are exact binary fractions or far from a tie).
RoundTenths(n, d) ==
    LET q == (10 * n) \div d
        r == (10 * n) % d
    IN IF 2 * r > d \/ (2 * r = d /\ q % 2 = 1) THEN q + 1 ELSE q

\* format_file_size: "0 B" for zero, else the value divided by 1024 while it is at
\* least 1024 and a larger unit is left, with one fractional digit.
RECURSIVE UnitIndex(_, _)
UnitIndex(x, i) ==
    IF x.num >= 1024 * Pow1024(i) * x.den /\ i < Len(size_names) - 1
    THEN UnitIndex(x, i + 1)
    ELSE i

format_file_size(x) ==
    IF x.num = 0 THEN [tenths |-> 0, digits |-> 0, unit |-> "B"]
    ELSE LET i == UnitIndex(x, 0)
         IN [tenths |-> RoundTenths(x.num, x.den * Pow1024(i)), digits |-> 1,
             unit |-> size_names[i + 1]]

\* format_date: strftime('%Y-%m-%d %H:%M') keeps the minute and drops the seconds.
format_date(ts) == [minute |-> ts \div 60]
None == [none |-> TRUE]

\* ------------------------------------------------------------ aggregation
LargestWeekly == 15
OldestWeekly == 15
LargestSummary == 10
SevenDays == 7 * 24 * 60 * 60

Reverse(s) == [i \in 1..Len(s) |-> s[Len(s) + 1 - i]]
Take(s, n) == SubSeq(s, 1, IF n < Len(s) THEN n ELSE Len(s))

RECURSIVE SumSeq(_)
SumSeq(s) == IF s = <<>> THEN 0 ELSE Head(s) + SumSeq(Tail(s))

SetMin(S) == CHOOSE x \in S : \A y \in S : x <= y
SetMax(S) == CHOOSE x \in S : \A y \in S : x >= y

\* One insertion of a stable ascending sort over <<key, item>> pairs: p goes behind
\* every pair whose key is not larger.
RECURSIVE Insert(_, _)
Insert(acc, p) ==
    IF acc = <<>> THEN <<p>>
    ELSE IF Head(acc)[1] <= p[1] THEN <<Head(acc)>> \o Insert(Tail(acc), p)
    ELSE <<p>> \o acc

RECURSIVE SortAsc(_)
SortAsc(ps) ==
    IF ps = <<>> THEN <<>> ELSE Insert(SortAsc(SubSeq(ps, 1, Len(ps) - 1)), ps[Len(ps)])

sortedReverseAfter(s, keys, reverse) ==
    LET ps == [i \in 1..Len(s) |-> <<keys[i], s[i]>>]
        out == IF reverse THEN Reverse(SortAsc(ps)) ELSE SortAsc(ps)
    IN [i \in 1..Len(s) |-> out[i][2]]

\* sorted(s, key=..., reverse=...): stable; with reverse the list is reversed, sorted
\* ascending and reversed again, so equal keys keep their input order.
sorted(s, keys, reverse) ==
    LET ps == [i \in 1..Len(s) |-> <<keys[i], s[i]>>]
        out == IF reverse THEN Reverse(SortAsc(Reverse(ps))) ELSE SortAsc(ps)
    IN [i \in 1..Len(s) |-> out[i][2]]

Sizes(fd) == [i \in 1..Len(fd) |-> fd[i].size_bytes]
MTimes(fd) == [i \in 1..Len(fd) |-> fd[i].modified_time]

EmptyAnalysis(avg) ==
    [total_files |-> 0, total_size |-> 0, average_size |-> avg,
     oldest_date |-> None, newest_date |-> None, largest_files |-> <<>>,
     recent_files |-> <<>>, oldest_files |-> <<>>, subfolders |-> <<>>]


recent_window(fd, t) == SelectSeq(fd, LAMBDA f : f.modified_time >= t - SevenDays)

analyze_files_stats(fd, sd, t) ==
    LET total_files == Len(fd)
        total_size == SumSeq(Sizes(fd))
        average_size == IF total_files > 0 THEN TrueDiv(total_size, total_files)
                        ELSE Whole(0)
        recent == recent_window(fd, t)
    IN [total_files |-> total_files,
        total_size |-> total_size,
        total_size_formatted |-> format_file_size(Whole(total_size)),
        average_size |-> average_size,
        average_size_formatted |-> format_file_size(average_size),
        oldest_date |-> format_date(SetMin(SeqRange(MTimes(fd)))),
        newest_date |-> format_date(SetMax(SeqRange(MTimes(fd)))),
        largest_files |-> Take(sorted(fd, Sizes(fd), TRUE), LargestWeekly),
        recent_files |-> sorted(recent, MTimes(recent), TRUE),
        oldest_files |-> Take(sorted(fd, MTimes(fd), FALSE), OldestWeekly),
        subfolders |-> sorted(sd, [i \in 1..Len(sd) |-> sd[i].total_size], TRUE)]

analyze_files_unguarded(fd, sd, t) ==
    IF fd = <<>> THEN EmptyAnalysis(TrueDiv(SumSeq(Sizes(fd)), Len(fd)))
    ELSE analyze_files_stats(fd, sd, t)

analyze_files(fd, sd, t) ==
    IF fd = <<>> THEN EmptyAnalysis(Whole(0)) ELSE analyze_files_stats(fd, sd, t)


\* ------------------------------------------- summary_report.py: analysis
\* str.lower() on the extensions that occur.
Lower(ext) == IF ext = ".TXT" THEN ".txt" ELSE ext

\* The key the file-type loop counts a row under.
ExtKey(f) == IF Lower(f.extension) = "" THEN "(no extension)" ELSE Lower(f.extension)

\* The distinct members of a sequence in the order they first occur: the key order
\* of a Counter or defaultdict filled in one pass.
RECURSIVE FirstSeen(_)
FirstSeen(s) ==
    IF s = <<>> THEN <<>>
    ELSE LET init == FirstSeen(SubSeq(s, 1, Len(s) - 1))
             x == s[Len(s)]
         IN IF x \in SeqRange(init) THEN init ELSE Append(init, x)

analyze_data(fd) ==
    LET exts == [i \in 1..Len(fd) |-> ExtKey(fd[i])]
        years == [i \in 1..Len(fd) |-> fd[i].modified_datetime.year]
        extRows(e) == SelectSeq(fd, LAMBDA f : ExtKey(f) = e)
        yearRows(y) == SelectSeq(fd, LAMBDA f : f.modified_datetime.year = y)
        types == [i \in 1..Len(FirstSeen(exts)) |->
                    LET e == FirstSeen(exts)[i] IN
                    [extension |-> e,
                     count |-> Len(extRows(e)),
                     total_size |-> SumSeq(Sizes(extRows(e))),
                     total_size_formatted |->
                         format_file_size(Whole(SumSeq(Sizes(extRows(e)))))]]
        \* sorted(year_counts.keys(), reverse=True)
        yearKeys == Reverse(SetToSeq(SeqRange(years)))
    IN [total_files |-> Len(fd),
        total_size |-> SumSeq(Sizes(fd)),
        total_size_formatted |-> format_file_size(Whole(SumSeq(Sizes(fd)))),
        largest_files |-> Take(sorted(fd, Sizes(fd), TRUE), LargestSummary),
        \* Counter.most_common(): by count, descending, stable
        file_types |-> sorted(types, [i \in 1..Len(types) |-> types[i].count], TRUE),
        files_by_year |-> [i \in 1..Len(yearKeys) |->
                             LET y == yearKeys[i] IN
                             [year |-> y,
                              count |-> Len(yearRows(y)),
                              total_size |-> SumSeq(Sizes(yearRows(y))),
                              total_size_formatted |->
                                  format_file_size(Whole(SumSeq(Sizes(yearRows(y)))))]]]

TypeRowsShown == 20

\* generate_markdown_report (summary): (count / total_files) * 100 for each of the
\* first 20 file-type rows, then for every year row.
Percentages(a) ==
    [i \in 1..Len(Take(a.file_types, TypeRowsShown)) |->
        TrueDiv(a.file_types[i].count * 100, a.total_files)]
    \o [i \in 1..Len(a.files_by_year) |->
        TrueDiv(a.files_by_year[i].count * 100, a.total_files)]

\* ------------------------------------------------ file_census.py: pipeline
Header == "filename,full_path,size_bytes,size_formatted,modified_date,extension"

\* The record both scanners build from one stat() result.
FileInfo(e) == [name |-> e, size_bytes |-> st_size[e], modified_time |-> st_mtime[e]]

\* How the process ends: sys.exit(status) after printing msg, the with-block having
\* closed the CSV file if it was open.
Exit(status, msg) ==
    /\ pc' = "exited"
    /\ exitStatus' = status
    /\ message' = msg
    /\ outfile' = [outfile EXCEPT !.open = FALSE]

ScanFolderRootErrorNoDirCheck(rk) ==
    IF rk = "absent" THEN "FileNotFoundError" ELSE "none"

\* scan_folder's checks of its argument.
ScanFolderRootError(rk) ==
    IF rk = "absent" THEN "FileNotFoundError"
    ELSE IF rk # "dir" THEN "NotADirectoryError"
    ELSE "none"

\* create_csv_report: open(output_path, 'w') and writer.writeheader(); the open may
\* be refused.
CreateCsvReport_Open ==
    /\ program = "census" /\ pc = "main"
    /\ \E o \in {"ok", "PermissionError"} :
        IF o = "ok"
        THEN /\ outfile' = [exists |-> TRUE, open |-> TRUE, rows |-> <<Header>>]
             /\ pc' = "gen"
             /\ UNCHANGED <<exitStatus, message>>
        ELSE /\ pc' = "exited" /\ exitStatus' = 1
             /\ message' = "Error: Permission denied writing"
             /\ UNCHANGED outfile
    /\ UNCHANGED <<program, show_progress, rootKind, kind, st_size, st_mtime, listing,
                   file_count, processed_count, yielded, file_info, files_written,
                   counted, interrupted, lastRaise, faulted, aggVars>>
    /\ UNCHANGED textVars

\* The first next() of the generator runs scan_folder up to its first loop; what it
\* raises there is caught by create_csv_report's "except Exception".
ScanFolder_Start ==
    /\ program = "census" /\ pc = "gen"
    /\ IF ScanFolderRootError(rootKind) # "none"
       THEN /\ Exit(1, "Error creating CSV report: " \o ScanFolderRootError(rootKind))
            /\ UNCHANGED listing
       ELSE /\ pc' = IF show_progress THEN "count" ELSE "scan"
            /\ listing' = rglob(Root)
            /\ UNCHANGED <<exitStatus, message, outfile>>
    /\ UNCHANGED <<program, show_progress, rootKind, kind, st_size, st_mtime,
                   file_count, processed_count, yielded, file_info, files_written,
                   counted, interrupted, lastRaise, faulted, aggVars>>
    /\ UNCHANGED textVars

\* First pass, one entry: is_file() under "except PermissionError"; any other
\* OSError leaves the generator and reaches create_csv_report's "except Exception".
CountStep ==
    /\ program = "census" /\ pc = "count" /\ listing # <<>>
    /\ LET e == Head(listing) IN
       \E o \in Outcomes :
        /\ lastRaise' = Raise("is_file", o)
        /\ faulted' = IF o = "ok" THEN faulted ELSE faulted \cup {e}
        /\ CASE o = "ok" ->
                  /\ file_count' = IF is_file(e) THEN file_count + 1 ELSE file_count
                  /\ listing' = Tail(listing)
                  /\ UNCHANGED <<pc, exitStatus, message, outfile>>
             [] o = "PermissionError" ->
                  /\ file_count' = 0
                  /\ listing' = rglob(Root)
                  /\ pc' = "scan"
                  /\ UNCHANGED <<exitStatus, message, outfile>>
             [] o = "OSError" ->
                  /\ Exit(1, "Error creating CSV report: OSError")
                  /\ UNCHANGED <<file_count, listing>>
    /\ UNCHANGED <<program, show_progress, rootKind, kind, st_size, st_mtime,
                   processed_count, yielded, file_info, files_written,
                   counted, interrupted, aggVars>>
    /\ UNCHANGED textVars

CountDone ==
    /\ program = "census" /\ pc = "count" /\ listing = <<>>
    /\ pc' = "scan"
    /\ listing' = rglob(Root)
    /\ lastRaise' = NoRaise
    /\ UNCHANGED <<program, show_progress, rootKind, kind, st_size, st_mtime,
                   file_count, processed_count, yielded, file_info, files_written,
                   outfile, counted, exitStatus, message, interrupted, faulted, aggVars>>
    /\ UNCHANGED textVars

\* A KeyboardInterrupt in the first pass is not caught in scan_folder (only
\* PermissionError is) nor by "except Exception": it reaches main's handler.
CountInterrupt ==
    /\ program = "census" /\ pc = "count"
    /\ interrupted' = "count"
    /\ lastRaise' = NoRaise
    /\ Exit(1, "Operation cancelled by user.")
    /\ UNCHANGED <<program, show_progress, rootKind, kind, st_size, st_mtime, listing,
                   file_count, processed_count, yielded, file_info, files_written,
                   counted, faulted, aggVars>>
    /\ UNCHANGED textVars

\* Second pass, one entry: is_file() outside the inner try, stat() inside it; a
\* record is yielded to create_csv_report's loop.
ScanStep ==
    /\ program = "census" /\ pc = "scan" /\ listing # <<>>
    /\ LET e == Head(listing) IN
       \E o \in Outcomes :
        IF o = "PermissionError"
        THEN /\ lastRaise' = Raise("is_file", o)
             /\ faulted' = faulted \cup {e}
             /\ Exit(1, "Error: Permission denied writing")
             /\ UNCHANGED <<listing, processed_count, yielded, file_info>>
        ELSE IF o = "OSError"
        THEN /\ lastRaise' = Raise("is_file", o)
             /\ faulted' = faulted \cup {e}
             /\ Exit(1, "Error creating CSV report: OSError")
             /\ UNCHANGED <<listing, processed_count, yielded, file_info>>
        ELSE IF ~is_file(e)
        THEN /\ lastRaise' = NoRaise
             /\ listing' = Tail(listing)
             /\ UNCHANGED <<pc, exitStatus, message, outfile, faulted,
                            processed_count, yielded, file_info>>
        ELSE \E st \in Caught :
             /\ lastRaise' = Raise("stat", st)
             /\ listing' = Tail(listing)
             /\ UNCHANGED <<exitStatus, message, outfile>>
             /\ IF st = "ok"
                THEN /\ file_info' = <<FileInfo(e)>>
                     /\ processed_count' = processed_count + 1
                     /\ yielded' = Append(yielded, FileInfo(e))
                     /\ pc' = "consume"
                     /\ UNCHANGED faulted
                ELSE /\ faulted' = faulted \cup {e}
                     /\ UNCHANGED <<pc, processed_count, yielded, file_info>>
    /\ UNCHANGED <<program, show_progress, rootKind, kind, st_size, st_mtime,
                   file_count, files_written, counted, interrupted, aggVars>>
    /\ UNCHANGED textVars

\* The iterator is exhausted: "Completed scanning", the generator returns.
ScanDone ==
    /\ program = "census" /\ pc = "scan" /\ listing = <<>>
    /\ pc' = "finish"
    /\ lastRaise' = NoRaise
    /\ UNCHANGED <<program, show_progress, rootKind, kind, st_size, st_mtime, listing,
                   file_count, processed_count, yielded, file_info, files_written,
                   outfile, counted, exitStatus, message, interrupted, faulted, aggVars>>
    /\ UNCHANGED textVars

\* A KeyboardInterrupt inside the second pass: scan_folder's own handler prints
\* "Interrupted. Processed n files." and returns, which ends the generator like
\* exhaustion does.
ScanInterrupt ==
    /\ program = "census" /\ pc = "scan"
    /\ interrupted' = "scan"
    /\ message' = "Interrupted. Processed n files."
    /\ pc' = "finish"
    /\ lastRaise' = NoRaise
    /\ UNCHANGED <<program, show_progress, rootKind, kind, st_size, st_mtime, listing,
                   file_count, processed_count, yielded, file_info, files_written,
                   outfile, counted, exitStatus, faulted, aggVars>>
    /\ UNCHANGED textVars

\* create_csv_report's loop body: writer.writerow(file_info); files_written += 1.
WriteRow ==
    /\ program = "census" /\ pc = "consume"
    /\ outfile' = [outfile EXCEPT !.rows = Append(@, file_info[1])]
    /\ files_written' = files_written + 1
    /\ file_info' = <<>>
    /\ pc' = "scan"
    /\ lastRaise' = NoRaise
    /\ UNCHANGED <<program, show_progress, rootKind, kind, st_size, st_mtime, listing,
                   file_count, processed_count, yielded, counted, exitStatus, message,
                   interrupted, faulted, aggVars>>
    /\ UNCHANGED textVars

\* A KeyboardInterrupt while the generator is suspended at its yield: raised in the
\* consumer before or after the row reached the file; the with-block closes the
\* file and main's handler exits.
WriteInterrupt ==
    /\ program = "census" /\ pc = "consume"
    /\ \E written \in BOOLEAN :
        /\ outfile' = [exists |-> TRUE, open |-> FALSE,
                       rows |-> IF written THEN Append(outfile.rows, file_info[1])
                                ELSE outfile.rows]
        /\ files_written' = IF written THEN files_written + 1 ELSE files_written
    /\ interrupted' = "consume"
    /\ pc' = "exited" /\ exitStatus' = 1
    /\ message' = "Operation cancelled by user."
    /\ lastRaise' = NoRaise
    /\ UNCHANGED <<program, show_progress, rootKind, kind, st_size, st_mtime, listing,
                   file_count, processed_count, yielded, file_info, counted, faulted,
                   aggVars>>
    /\ UNCHANGED textVars

\* The for loop ends: the file is closed, create_csv_report and main return.
CreateCsvReport_Finish ==
    /\ program = "census" /\ pc = "finish"
    /\ pc' = "exited" /\ exitStatus' = 0
    /\ outfile' = [outfile EXCEPT !.open = FALSE]
    /\ message' = IF show_progress THEN "CSV report created" ELSE message
    /\ lastRaise' = NoRaise
    /\ UNCHANGED <<program, show_progress, rootKind, kind, st_size, st_mtime, listing,
                   file_count, processed_count, yielded, file_info, files_written,
                   counted, interrupted, faulted, aggVars>>
    /\ UNCHANGED textVars


\* ---------------------------------- downloads_weekly_review.py: pipeline
ScanDownloadsRootError(rk) ==
    IF rk = "absent" THEN "Error: Downloads folder not found"
    ELSE IF rk # "dir" THEN "Error: Path is not a directory"
    ELSE "none"

\* scan_downloads_folder's checks of its argument: sys.exit(1), which main's
\* "except Exception" does not catch.
ScanDownloads_Start ==
    /\ program = "weekly" /\ pc = "main"
    /\ IF ScanDownloadsRootError(rootKind) # "none"
       THEN /\ Exit(1, ScanDownloadsRootError(rootKind))
            /\ UNCHANGED listing
       ELSE /\ pc' = "wscan"
            /\ listing' = rglob(Root)
            /\ UNCHANGED <<exitStatus, message, outfile>>
    /\ UNCHANGED <<program, show_progress, rootKind, kind, st_size, st_mtime,
                   file_count, processed_count, yielded, file_info, files_written,
                   counted, interrupted, lastRaise, faulted, aggVars>>
    /\ UNCHANGED textVars

\* The file loop, one entry: is_file() is guarded only by the function's outer
\* "except PermissionError" (exit 1); another OSError reaches main's
\* "except Exception" (exit 1); stat() is inside the inner try.
WeeklyScanStep ==
    /\ program = "weekly" /\ pc = "wscan" /\ listing # <<>>
    /\ LET e == Head(listing) IN
       \E o \in Outcomes :
        IF o = "PermissionError"
        THEN /\ lastRaise' = Raise("is_file", o)
             /\ faulted' = faulted \cup {e}
             /\ Exit(1, "Error: Permission denied accessing folder")
             /\ UNCHANGED <<listing, files_data>>
        ELSE IF o = "OSError"
        THEN /\ lastRaise' = Raise("is_file", o)
             /\ faulted' = faulted \cup {e}
             /\ Exit(1, "Unexpected error: OSError")
             /\ UNCHANGED <<listing, files_data>>
        ELSE IF ~is_file(e)
        THEN /\ lastRaise' = NoRaise
             /\ listing' = Tail(listing)
             /\ UNCHANGED <<pc, exitStatus, message, outfile, faulted, files_data>>
        ELSE \E st \in Caught :
             /\ lastRaise' = Raise("stat", st)
             /\ listing' = Tail(listing)
             /\ UNCHANGED <<pc, exitStatus, message, outfile>>
             /\ IF st = "ok"
                THEN /\ files_data' = Append(files_data, FileInfo(e))
                     /\ UNCHANGED faulted
                ELSE /\ faulted' = faulted \cup {e}
                     /\ UNCHANGED files_data
    /\ UNCHANGED <<program, show_progress, rootKind, kind, st_size, st_mtime,
                   file_count, processed_count, yielded, file_info, files_written,
                   counted, interrupted, subfolders_data, now, analysis, csv_data,
                   summary, percentages>>
    /\ UNCHANGED textVars

\* The file loop is over; folder_path.iterdir() lists the root, or is refused.
WeeklyScanDone ==
    /\ program = "weekly" /\ pc = "wscan" /\ listing = <<>>
    /\ \E o \in {"ok", "PermissionError"} :
        /\ lastRaise' = Raise("iterdir", o)
        /\ IF o = "ok"
           THEN /\ pc' = "wsub"
                /\ listing' = iterdir(Root)
                /\ UNCHANGED <<exitStatus, message, outfile>>
           ELSE /\ Exit(1, "Error: Permission denied accessing folder")
                /\ UNCHANGED listing
    /\ UNCHANGED <<program, show_progress, rootKind, kind, st_size, st_mtime,
                   file_count, processed_count, yielded, file_info, files_written,
                   counted, interrupted, faulted, aggVars>>
    /\ UNCHANGED textVars

\* The files of `order` that the subfolder loop counts when stat() raises on the
\* paths in S.
Counted(order, S) == {order[i] : i \in {j \in 1..Len(order) : is_file(order[j])}} \ S

FolderInfo(c, files) ==
    [name |-> c, file_count |-> Cardinality(files), total_size |-> SumSizes(files)]

EmitZeroFilled(n) == n >= 0

\* "if file_count > 0": only folders with files are included.
Emit(n) == n > 0

\* The subfolder loop, one immediate child c of the root, up to the end of its
\* recursive count: is_dir() is outside the per-folder try; inside it the count
\* skips a file whose stat() raises, and an is_file() that raises leaves the try
\* through "except (OSError, PermissionError): continue", skipping the folder.
WeeklySubStep ==
    /\ program = "weekly" /\ pc = "wsub" /\ listing # <<>>
    /\ LET c == Head(listing)
           order == rglob(c)
       IN
       \E o \in Outcomes :
        IF o = "PermissionError"
        THEN /\ lastRaise' = Raise("is_dir", o)
             /\ faulted' = faulted \cup {c}
             /\ Exit(1, "Error: Permission denied accessing folder")
             /\ UNCHANGED <<listing, counted>>
        ELSE IF o = "OSError"
        THEN /\ lastRaise' = Raise("is_dir", o)
             /\ faulted' = faulted \cup {c}
             /\ Exit(1, "Unexpected error: OSError")
             /\ UNCHANGED <<listing, counted>>
        ELSE IF ~is_dir(c)
        THEN /\ lastRaise' = NoRaise
             /\ listing' = Tail(listing)
             /\ UNCHANGED <<pc, exitStatus, message, outfile, faulted, counted>>
        ELSE /\ UNCHANGED <<exitStatus, message, outfile>>
             /\ \/ \E p \in 1..Len(order) :
                   \E S \in SUBSET Counted(SubSeq(order, 1, p - 1), {}) :
                      \* is_file(order[p]) raises after the entries before it
                      /\ lastRaise' = Raise("is_file", "OSError")
                      /\ faulted' = faulted \cup S \cup {order[p]}
                      /\ counted' = [counted EXCEPT ![c] =
                              Counted(SubSeq(order, 1, p - 1), S)]
                      /\ listing' = Tail(listing)
                      /\ UNCHANGED pc
                \/ \E S \in SUBSET Counted(order, {}) :
                      /\ lastRaise' = IF S = {} THEN NoRaise
                                      ELSE Raise("stat", "OSError")
                      /\ faulted' = faulted \cup S
                      /\ counted' = [counted EXCEPT ![c] = Counted(order, S)]
                      /\ pc' = "wemit"
                      /\ UNCHANGED listing
    /\ UNCHANGED <<program, show_progress, rootKind, kind, st_size, st_mtime,
                   file_count, processed_count, yielded, file_info, files_written,
                   interrupted, aggVars>>
    /\ UNCHANGED textVars

\* The rest of the loop body for c: "if file_count > 0", the folder's own stat()
\* and the append; a stat() that raises skips the folder.
WeeklySubEmit ==
    /\ program = "weekly" /\ pc = "wemit"
    /\ LET c == Head(listing) IN
       IF ~Emit(Cardinality(counted[c]))
       THEN /\ lastRaise' = NoRaise
            /\ UNCHANGED <<faulted, subfolders_data>>
       ELSE \E fs \in Caught :
            /\ lastRaise' = Raise("stat", fs)
            /\ IF fs = "ok"
               THEN /\ subfolders_data' =
                          Append(subfolders_data, FolderInfo(c, counted[c]))
                    /\ UNCHANGED faulted
               ELSE /\ faulted' = faulted \cup {c}
                    /\ UNCHANGED subfolders_data
    /\ listing' = Tail(listing)
    /\ pc' = "wsub"
    /\ UNCHANGED <<program, show_progress, rootKind, kind, st_size, st_mtime,
                   file_count, processed_count, yielded, file_info, files_written,
                   outfile, counted, exitStatus, message, interrupted, files_data,
                   now, analysis, csv_data, summary, percentages>>
    /\ UNCHANGED textVars

\* scan_downloads_folder returns (files_data, subfolders_data).
WeeklySubDone ==
    /\ program = "weekly" /\ pc = "wsub" /\ listing = <<>>
    /\ pc' = "analyze"
    /\ lastRaise' = NoRaise
    /\ UNCHANGED <<program, show_progress, rootKind, kind, st_size, st_mtime, listing,
                   file_count, processed_count, yielded, file_info, files_written,
                   outfile, counted, exitStatus, message, interrupted, faulted, aggVars>>
    /\ UNCHANGED textVars

\* A KeyboardInterrupt anywhere in the scan reaches main's handler.
WeeklyInterrupt ==
    /\ program = "weekly" /\ pc \in {"wscan", "wsub", "wemit"}
    /\ interrupted' = pc
    /\ lastRaise' = NoRaise
    /\ Exit(1, "Operation cancelled by user.")
    /\ UNCHANGED <<program, show_progress, rootKind, kind, st_size, st_mtime, listing,
                   file_count, processed_count, yielded, file_info, files_written,
                   counted, faulted, aggVars>>
    /\ UNCHANGED textVars

\* main: analysis = analyze_files(files_data, subfolders_data).
Weekly_Analyze ==
    /\ program = "weekly" /\ pc = "analyze"
    /\ analysis' = analyze_files(files_data, subfolders_data, now)
    /\ pc' = "render"
    /\ UNCHANGED <<program, scanVars, files_data, subfolders_data, now, csv_data,
                   summary, percentages>>
    /\ UNCHANGED textVars

\* The keys generate_markdown_report subscripts.
ReportKeys ==
    {"total_files", "oldest_date", "newest_date", "total_size_formatted",
     "average_size_formatted", "largest_files", "recent_files", "subfolders",
     "oldest_files"}

\* main: generate_markdown_report(analysis); a missing key is a KeyError, which
\* main's "except Exception" turns into exit status 1.
Weekly_Render ==
    /\ program = "weekly" /\ pc = "render"
    /\ IF ReportKeys \subseteq DOMAIN analysis
       THEN Exit(0, "report printed")
       ELSE Exit(1, "Unexpected error: KeyError")
    /\ UNCHANGED <<program, show_progress, rootKind, kind, st_size, st_mtime, listing,
                   file_count, processed_count, yielded, file_info, files_written,
                   counted, interrupted, lastRaise, faulted, aggVars>>
    /\ UNCHANGED textVars

\* ----------------------------------------------------------- specification
NowValue == 1000000

OutfileStates ==
    {[exists |-> FALSE, open |-> FALSE, rows |-> <<>>],
     [exists |-> TRUE, open |-> FALSE, rows |-> <<"old content">>]}

TextIdle ==
    /\ filename = <<>> /\ shown = <<>> /\ shown_again = <<>>
    /\ row = <<>> /\ columns = 0
    /\ csvfile = <<>>

AggIdle ==
    /\ files_data = <<>> /\ subfolders_data = <<>> /\ analysis = <<>>
    /\ csv_data = <<>> /\ summary = <<>> /\ percentages = <<>>

Init ==
    /\ program \in {"census", "weekly"}
    /\ show_progress \in (IF program = "census" THEN BOOLEAN ELSE {FALSE})
    /\ rootKind \in Kinds
    /\ kind \in {k \in [Entries -> Kinds] : WellFormed(rootKind, k)}
    /\ st_size \in {s \in [Entries -> 0..MaxSize] :
                      \A e \in Entries : kind[e] # "file" => s[e] = 0}
    /\ now = NowValue
    /\ st_mtime = [e \in Entries |-> IF kind[e] = "file" THEN now - e ELSE 0]
    /\ outfile \in (IF program = "census" THEN OutfileStates
                    ELSE {[exists |-> FALSE, open |-> FALSE, rows |-> <<>>]})
    /\ pc = "main"
    /\ listing = <<>>
    /\ file_count = 0 /\ processed_count = 0 /\ files_written = 0
    /\ yielded = <<>> /\ file_info = <<>>
    /\ counted = [e \in Entries |-> {}]
    /\ exitStatus = -1 /\ message = "none" /\ interrupted = "none"
    /\ lastRaise = NoRaise /\ faulted = {}
    /\ AggIdle /\ TextIdle

Next ==
    \/ CreateCsvReport_Open \/ ScanFolder_Start
    \/ CountStep \/ CountDone \/ CountInterrupt
    \/ ScanStep \/ ScanDone \/ ScanInterrupt
    \/ WriteRow \/ WriteInterrupt \/ CreateCsvReport_Finish
    \/ ScanDownloads_Start \/ WeeklyScanStep \/ WeeklyScanDone
    \/ WeeklySubStep \/ WeeklySubEmit \/ WeeklySubDone \/ WeeklyInterrupt
    \/ Weekly_Analyze \/ Weekly_Render

Spec == Init /\ [][Next]_vars


\* ------------------------------------------ summary_report.py: pipeline
\* main: analysis = analyze_data(files_data).
Summary_Analyze ==
    /\ program = "summary" /\ pc = "summarize"
    /\ summary' = analyze_data(csv_data)
    /\ pc' = "report"
    /\ UNCHANGED <<program, scanVars, files_data, subfolders_data, now, analysis,
                   csv_data, percentages>>
    /\ UNCHANGED textVars

\* main: generate_markdown_report(analysis, output_file): the rows are built, then
\* the file is written; a write that fails is reported and exits with status 1. A
\* ZeroDivisionError in a percentage is caught nowhere.
Summary_Render ==
    /\ program = "summary" /\ pc = "report"
    /\ percentages' = Percentages(summary)
    /\ IF \E i \in 1..Len(Percentages(summary)) : Percentages(summary)[i].den = 0
       THEN Exit(1, "ZeroDivisionError")
       ELSE \E o \in {"ok", "error"} :
              IF o = "ok" THEN Exit(0, "Summary report created")
              ELSE Exit(1, "Error writing markdown file")
    /\ UNCHANGED <<program, show_progress, rootKind, kind, st_size, st_mtime, listing,
                   file_count, processed_count, yielded, file_info, files_written,
                   counted, interrupted, lastRaise, faulted, files_data,
                   subfolders_data, now, analysis, csv_data, summary>>
    /\ UNCHANGED textVars

\* --------------------------- specification of the aggregators on their own
MaxRecords == 17

\* Modification times around the edges of the seven-day window, relative to now.
TimeOffsets == <<1, 0, 0 - SevenDays, 0 - SevenDays - 1, -1>>
Extensions == <<".txt", "", ".TXT", ".pdf", ""  >>
Years == <<2025, 2024, 2024, 2023, 2025>>

\* The record lists tried: every length up to MaxRecords, the sizes and times
\* repeating a two-record pattern, so that ties and records beyond the top 15 occur.
PatternSlots == 1..2
Patterns == [PatternSlots -> (0..MaxSize) \X (1..Len(TimeOffsets))]
Slot(i) == ((i - 1) % Cardinality(PatternSlots)) + 1

WeeklyRecords(n, pat, t) ==
    [i \in 1..n |-> [name |-> i, size_bytes |-> pat[Slot(i)][1],
                     modified_time |-> t + TimeOffsets[pat[Slot(i)][2]]]]

CsvRecords(n, pat) ==
    [i \in 1..n |-> [filename |-> i, size_bytes |-> pat[Slot(i)][1],
                     extension |-> Extensions[pat[Slot(i)][2]],
                     modified_datetime |-> [year |-> Years[pat[Slot(i)][2]]]]]

FolderLists ==
    {<<>>, <<[name |-> 1, file_count |-> 1, total_size |-> 1],
             [name |-> 2, file_count |-> 2, total_size |-> 2]>>}

ScanIdle ==
    /\ show_progress = FALSE /\ rootKind = "dir"
    /\ kind = [e \in Entries |-> "absent"]
    /\ st_size = [e \in Entries |-> 0] /\ st_mtime = [e \in Entries |-> 0]
    /\ outfile = [exists |-> FALSE, open |-> FALSE, rows |-> <<>>]
    /\ listing = <<>>
    /\ file_count = 0 /\ processed_count = 0 /\ files_written = 0
    /\ yielded = <<>> /\ file_info = <<>>
    /\ counted = [e \in Entries |-> {}]
    /\ exitStatus = -1 /\ message = "none" /\ interrupted = "none"
    /\ lastRaise = NoRaise /\ faulted = {}

InitAgg ==
    /\ ScanIdle /\ TextIdle
    /\ program \in {"weekly", "summary"}
    /\ now = NowValue
    /\ analysis = <<>> /\ summary = <<>> /\ percentages = <<>>
    /\ \E n \in 0..MaxRecords, pat \in Patterns :
         IF program = "weekly"
         THEN /\ files_data = WeeklyRecords(n, pat, now)
              /\ subfolders_data \in FolderLists
              /\ csv_data = <<>>
              /\ pc = "analyze"
         ELSE /\ csv_data = CsvRecords(n, pat)
              /\ files_data = <<>> /\ subfolders_data = <<>>
              /\ pc = "summarize"

NextAgg == Weekly_Analyze \/ Weekly_Render \/ Summary_Analyze \/ Summary_Render

SpecAgg == InitAgg /\ [][NextAgg]_vars

\* ------------------------------- downloads_weekly_review.py: rendering
\* Strings are sequences of characters; a literal without '|' or '\' in it may
\* stand as one element.
max_length == 40
Ellipsis == <<".", ".", ".">>

Prefix(s, n) == SubSeq(s, 1, IF n < Len(s) THEN n ELSE Len(s))
DotsAt(s) == {i \in 1..Len(s) : s[i] = "."}

truncate_filename_first_dot(f, limit) ==
    IF Len(f) <= limit THEN f
    ELSE LET k == IF DotsAt(f) = {} THEN 0 ELSE SetMin(DotsAt(f))
             name == SubSeq(f, 1, k - 1)
             ext == SubSeq(f, k + 1, Len(f))
             available_length == limit - Len(ext) - 4
         IN IF k > 0 /\ Len(ext) < limit - 3 /\ available_length > 0
            THEN Prefix(name, available_length) \o Ellipsis \o ext
            ELSE Prefix(f, limit - 3) \o Ellipsis

\* truncate_filename(filename, max_length): rsplit('.', 1) cuts at the last '.'.
truncate_filename(f, limit) ==
    IF Len(f) <= limit THEN f
    ELSE LET k == IF DotsAt(f) = {} THEN 0 ELSE SetMax(DotsAt(f))
             name == SubSeq(f, 1, k - 1)
             ext == SubSeq(f, k + 1, Len(f))
             available_length == limit - Len(ext) - 4
         IN IF k > 0 /\ Len(ext) < limit - 3 /\ available_length > 0
            THEN Prefix(name, available_length) \o Ellipsis \o ext
            ELSE Prefix(f, limit - 3) \o Ellipsis

\* str.replace(old, new) for one-character old.
RECURSIVE Replace(_, _, _)
Replace(s, old, new) ==
    IF s = <<>> THEN <<>>
    ELSE (IF Head(s) = old THEN new ELSE <<Head(s)>>) \o Replace(Tail(s), old, new)

\* .replace('|', '\\|')
EscapePipes(s) == Replace(s, "|", <<"\\", "|">>)

\* urllib.parse.quote(s, safe='/:'): letters, digits, "_.-~" and the safe
\* characters stay, any other character becomes %XX.
RECURSIVE quote(_)
quote(s) ==
    IF s = <<>> THEN <<>>
    ELSE (CASE Head(s) = "|" -> <<"%", "7", "C">>
            [] Head(s) = "\\" -> <<"%", "5", "C">>
            [] Head(s) = " " -> <<"%", "2", "0">>
            [] OTHER -> <<Head(s)>>) \o quote(Tail(s))

\* The record fields a row shows beside the name; none holds a '|'.
FolderPath == <<"/", "d", "/">>
SizeText == <<"1", ".", "0", " ", "B">>
DateText == <<"2024-01-01 00:00">>
CountText == <<"1">>
Sep == <<" ", "|", " ">>

delete_link(path) ==
    <<"[del](obsidian://shell-commands/?execute=19bemkchg3&_file_path=">>
    \o quote(Replace(path, "\\", <<"/">>)) \o <<")">>

\* print(f"| {filename} | {size_formatted} | {modified_formatted} | {delete_link} |")
LargestRow(f) ==
    <<"|", " ">> \o EscapePipes(truncate_filename(f, max_length)) \o Sep \o SizeText
    \o Sep \o DateText \o Sep \o delete_link(FolderPath \o f) \o <<" ", "|">>

\* print(f"| {filename} | {size_formatted} | {modified_formatted} |")
FileRow(f) ==
    <<"|", " ">> \o EscapePipes(truncate_filename(f, max_length)) \o Sep \o SizeText
    \o Sep \o DateText \o <<" ", "|">>

\* print(f"| {folder_name} | {file_count:,} | {total_size_formatted} | {created_formatted} |")
SubfolderRow(f) ==
    <<"|", " ">> \o EscapePipes(f) \o Sep \o CountText \o Sep \o SizeText
    \o Sep \o DateText \o <<" ", "|">>

\* summary_report: the row "| {i} | {filename} | {size_formatted} | {modified_date} |",
\* the name between two backquotes.
Backquote == "backquote"
SummaryLargestRow(f) ==
    <<"|", " ">> \o CountText \o Sep \o <<Backquote>> \o EscapePipes(f)
    \o <<Backquote>> \o Sep
    \o SizeText \o Sep \o DateText \o <<" ", "|">>

RenderRow(r, n) ==
    /\ pc = "name"
    /\ row' = r
    /\ columns' = n
    /\ pc' = "row"
    /\ UNCHANGED <<program, scanVars, aggVars, filename, shown, shown_again, csvfile>>

Render_LargestRow == program = "weekly" /\ RenderRow(LargestRow(filename), 4)
Render_RecentRow == program = "weekly" /\ RenderRow(FileRow(filename), 3)
Render_SubfolderRow == program = "weekly" /\ RenderRow(SubfolderRow(filename), 4)
Render_OldestRow == program = "weekly" /\ RenderRow(FileRow(filename), 3)
SummaryRender_LargestRow == program = "summary" /\ RenderRow(SummaryLargestRow(filename), 4)

\* A name is shortened for display; shortening what is displayed again.
Truncate ==
    /\ pc = "name"
    /\ shown' = truncate_filename(filename, max_length)
    /\ pc' = "shown"
    /\ UNCHANGED <<program, scanVars, aggVars, filename, shown_again, row, columns,
                   csvfile>>

TruncateAgain ==
    /\ pc = "shown"
    /\ shown_again' = truncate_filename(shown, max_length)
    /\ pc' = "shown_again"
    /\ UNCHANGED <<program, scanVars, aggVars, filename, shown, row, columns,
                   csvfile>>

\* ------------------------------------- specifications of the text functions
MaxCellLen == 4
MaxNameLen == 45

NameChars == {"a", "|", "\\"}
CellNames == UNION {[1..n -> NameChars] : n \in 0..MaxCellLen}

InitRender ==
    /\ ScanIdle /\ AggIdle
    /\ now = NowValue
    /\ program \in {"weekly", "summary"}
    /\ filename \in CellNames
    /\ shown = <<>> /\ shown_again = <<>> /\ row = <<>> /\ columns = 0
    /\ csvfile = <<>>
    /\ pc = "name"

NextRender ==
    \/ Render_LargestRow \/ Render_RecentRow \/ Render_SubfolderRow
    \/ Render_OldestRow \/ SummaryRender_LargestRow

SpecRender == InitRender /\ [][NextRender]_vars

\* Names of every length up to MaxNameLen with at most two '.', the other
\* characters differing from their neighbours so that a prefix is recognisable.
Letters == <<"a", "b", "c">>
NameWith(n, D) == [i \in 1..n |-> IF i \in D THEN "." ELSE Letters[(i % 3) + 1]]

InitTruncate ==
    /\ ScanIdle /\ AggIdle
    /\ now = NowValue
    /\ program = "weekly"
    /\ \E n \in 0..MaxNameLen : \E i, j \in 0..n :
         filename = NameWith(n, {i, j} \ {0})
    /\ shown = <<>> /\ shown_again = <<>> /\ row = <<>> /\ columns = 0
    /\ csvfile = <<>>
    /\ pc = "name"

NextTruncate == Truncate \/ TruncateAgain

SpecTruncate == InitTruncate /\ [][NextTruncate]_vars

\* ------------------------------------------- file_census.py: the CSV text
\* Text is a sequence of characters; a string of several letters stands for a run
\* of characters none of which is a comma, a quote, a carriage return or a line
\* feed.
fieldnames ==
    <<"filename", "full_path", "size_bytes", "size_formatted", "modified_date",
      "extension">>

DigitChars == <<"0", "1", "2", "3", "4", "5", "6", "7", "8", "9">>

\* str(n) of a non-negative integer.
RECURSIVE str(_)
str(n) ==
    IF n < 10 THEN <<DigitChars[n + 1]>>
    ELSE str(n \div 10) \o <<DigitChars[(n % 10) + 1]>>

\* The last w decimal digits of n: strftime's zero-padded fields.
RECURSIVE Pad(_, _)
Pad(n, w) ==
    IF w = 0 THEN <<>> ELSE Pad(n \div 10, w - 1) \o <<DigitChars[(n % 10) + 1]>>

\* format_file_size's result as text: "0 B", or one fractional digit and the unit.
SizeChars(r) ==
    IF r.digits = 0 THEN str(r.tenths \div 10) \o <<" ", r.unit>>
    ELSE str(r.tenths \div 10) \o <<".">> \o str(r.tenths % 10) \o <<" ", r.unit>>

\* datetime.fromtimestamp(ts) for ts >= 0, the local zone taken as UTC: the civil
\* date of day ts // 86400 and the time of day.
fromtimestamp(ts) ==
    LET z == (ts \div 86400) + 719468
        era == z \div 146097
        doe == z - era * 146097
        yoe == (doe - doe \div 1460 + doe \div 36524 - doe \div 146096) \div 365
        doy == doe - (365 * yoe + yoe \div 4 - yoe \div 100)
        mp == (5 * doy + 2) \div 153
        m == IF mp < 10 THEN mp + 3 ELSE mp - 9
        sod == ts % 86400
    IN [year |-> yoe + era * 400 + (IF m <= 2 THEN 1 ELSE 0),
        month |-> m,
        day |-> doy - (153 * mp + 2) \div 5 + 1,
        hour |-> sod \div 3600,
        minute |-> (sod % 3600) \div 60,
        second |-> sod % 60]

\* .strftime('%Y-%m-%d %H:%M:%S')
strftime(dt) ==
    str(dt.year) \o <<"-">> \o Pad(dt.month, 2) \o <<"-">> \o Pad(dt.day, 2)
    \o <<" ">> \o Pad(dt.hour, 2) \o <<":">> \o Pad(dt.minute, 2)
    \o <<":">> \o Pad(dt.second, 2)

\* str.lower(), on the letters used here.
LowerChar(c) == IF c = "B" THEN "b" ELSE c
lower(s) == [i \in 1..Len(s) |-> LowerChar(s[i])]

\* PurePath.suffix: from the last '.', unless the name has none, starts with its
\* only one or ends with it.
suffix(name) ==
    LET dots == {i \in 1..Len(name) : name[i] = "."}
        i == IF dots = {} THEN 0 ELSE SetMax(dots)
    IN IF 1 < i /\ i < Len(name) THEN SubSeq(name, i, Len(name)) ELSE <<>>

\* The scan folder's own path, a run of ordinary characters.
FolderPrefix == <<"d/">>

\* The dictionary scan_folder yields for a file of the given name, size and
\* modification time.
file_info_of(name, size, mtime) ==
    [filename |-> name,
     full_path |-> FolderPrefix \o name,
     size_bytes |-> size,
     size_formatted |-> SizeChars(format_file_size(Whole(size))),
     modified_date |-> strftime(fromtimestamp(mtime)),
     extension |-> lower(suffix(name))]

\* csv.writer with the excel dialect, QUOTE_MINIMAL: a field holding the delimiter,
\* the quote character or a character of the line terminator is put in quotes, its
\* quotes doubled.
NeedsQuotes(f) == \E i \in 1..Len(f) : f[i] \in {",", "\"", "\r", "\n"}
QuoteField(f) ==
    IF NeedsQuotes(f) THEN <<"\"">> \o Replace(f, "\"", <<"\"", "\"">>) \o <<"\"">>
    ELSE f

RECURSIVE JoinFields(_)
JoinFields(fs) ==
    IF fs = <<>> THEN <<>>
    ELSE IF Len(fs) = 1 THEN QuoteField(fs[1])
    ELSE QuoteField(fs[1]) \o <<",">> \o JoinFields(Tail(fs))

lineterminator == <<"\r", "\n">>
writerow(fs) == JoinFields(fs) \o lineterminator

\* DictWriter.writeheader and DictWriter.writerow: the values in fieldnames order,
\* a number written as str() gives it.
writeheader == writerow([i \in 1..Len(fieldnames) |-> <<fieldnames[i]>>])
RowFields(d) ==
    <<d.filename, d.full_path, str(d.size_bytes), d.size_formatted, d.modified_date,
      d.extension>>

\* ---------------------------------------- summary_report.py: the CSV text
\* open(csv_file, 'r', encoding='utf-8'): text mode with universal newlines, which
\* hands "\r\n" and a lone "\r" to the reader as "\n": the "\n" of a "\r\n" goes,
\* every "\r" becomes "\n".
universal_newlines(t) ==
    LET kept == SelectSeq([i \in 1..Len(t) |-> i],
                          LAMBDA i : ~(t[i] = "\n" /\ i > 1 /\ t[i - 1] = "\r"))
    IN [j \in 1..Len(kept) |-> IF t[kept[j]] = "\r" THEN "\n" ELSE t[kept[j]]]

\* The file object yields lines, each ending after a "\n"; csv.reader feeds its
\* parser every character of a line and then the end-of-line mark.
EOL == "EOL"
LineEnds(t) == SelectSeq([i \in 1..Len(t) |-> i], LAMBDA i : t[i] = "\n" \/ i = Len(t))
Line(t, k) ==
    SubSeq(t, IF k = 1 THEN 1 ELSE LineEnds(t)[k - 1] + 1, LineEnds(t)[k])

\* The parser of csv.reader (excel dialect, not strict): its state, the field and
\* the row being collected, the rows returned so far, and whether it raised.
ParserStart ==
    [state |-> "START_RECORD", field |-> <<>>, fields |-> <<>>, rows |-> <<>>,
     error |-> FALSE]

IsNewline(c) == c \in {"\n", "\r"}

\* parse_save_field, then the state after the character that ended the field; the
\* end-of-line mark ends the row too.
SaveField(P, c) ==
    LET fs == Append(P.fields, P.field) IN
    IF c = EOL
    THEN [P EXCEPT !.state = "START_RECORD", !.field = <<>>, !.fields = <<>>,
                   !.rows = Append(@, fs)]
    ELSE [P EXCEPT !.state = IF c = "," THEN "START_FIELD" ELSE "EAT_CRNL",
                   !.field = <<>>, !.fields = fs]

AddChar(P, c, st) == [P EXCEPT !.field = Append(@, c), !.state = st]

StartField(P, c) ==
    IF IsNewline(c) \/ c = EOL \/ c = "," THEN SaveField(P, c)
    ELSE IF c = "\"" THEN [P EXCEPT !.state = "IN_QUOTED_FIELD"]
    ELSE AddChar(P, c, "IN_FIELD")

parse_process_char(P, c) ==
    IF P.error THEN P
    ELSE IF P.state = "START_RECORD"
    THEN IF c = EOL THEN [P EXCEPT !.rows = Append(@, <<>>)]
         ELSE IF IsNewline(c) THEN [P EXCEPT !.state = "EAT_CRNL"]
         ELSE StartField(P, c)
    ELSE IF P.state = "START_FIELD" THEN StartField(P, c)
    ELSE IF P.state = "IN_FIELD"
    THEN IF IsNewline(c) \/ c = EOL \/ c = "," THEN SaveField(P, c)
         ELSE AddChar(P, c, "IN_FIELD")
    ELSE IF P.state = "IN_QUOTED_FIELD"
    THEN IF c = EOL THEN P
         ELSE IF c = "\"" THEN [P EXCEPT !.state = "QUOTE_IN_QUOTED_FIELD"]
         ELSE AddChar(P, c, "IN_QUOTED_FIELD")
    ELSE IF P.state = "QUOTE_IN_QUOTED_FIELD"
    THEN IF c = "\"" THEN AddChar(P, c, "IN_QUOTED_FIELD")
         ELSE IF IsNewline(c) \/ c = EOL \/ c = "," THEN SaveField(P, c)
         ELSE AddChar(P, c, "IN_FIELD")
    ELSE \* EAT_CRNL
         IF IsNewline(c) THEN P
         ELSE IF c = EOL
         THEN [P EXCEPT !.state = "START_RECORD", !.fields = <<>>,
                        !.rows = Append(@, P.fields)]
         ELSE [P EXCEPT !.error = TRUE]

\* The parser after the first n characters of a line.
RECURSIVE ParseLine(_, _, _)
ParseLine(P, line, n) ==
    IF n = 0 THEN P ELSE parse_process_char(ParseLine(P, line, n - 1), line[n])

\* The parser after the first k lines of the text.
RECURSIVE ParseLines(_, _)
ParseLines(t, k) ==
    IF k = 0 THEN ParserStart
    ELSE LET P == ParseLines(t, k - 1) IN
         IF P.error THEN P
         ELSE parse_process_char(ParseLine(P, Line(t, k), Len(Line(t, k))), EOL)

\* Every row csv.reader returns for the text; at the end of the input a row still
\* open inside a quoted field is returned as it stands.
reader(t) ==
    LET P == ParseLines(t, Len(LineEnds(t))) IN
    IF P.error THEN P
    ELSE IF P.field # <<>> \/ P.state = "IN_QUOTED_FIELD"
    THEN [P EXCEPT !.rows = Append(@, Append(P.fields, P.field))]
    ELSE P

\* int(text) and datetime.strptime(text, '%Y-%m-%d %H:%M:%S') on the texts the
\* census writes (digits only; four-digit year, two-digit fields); on another
\* text, or on None, either raises.
IsDigits(t) == t # <<>> /\ \A i \in 1..Len(t) : t[i] \in SeqRange(DigitChars)
DigitValue(c) == CHOOSE d \in 0..9 : DigitChars[d + 1] = c

RECURSIVE int(_)
int(t) ==
    IF t = <<>> THEN 0
    ELSE 10 * int(SubSeq(t, 1, Len(t) - 1)) + DigitValue(t[Len(t)])

strptime(t) ==
    [year |-> int(SubSeq(t, 1, 4)),
     month |-> int(SubSeq(t, 6, 7)),
     day |-> int(SubSeq(t, 9, 10)),
     hour |-> int(SubSeq(t, 12, 13)),
     minute |-> int(SubSeq(t, 15, 16)),
     second |-> int(SubSeq(t, 18, 19))]

StrptimeRaises(t) ==
    ~ /\ Len(t) = 19
      /\ t[5] = "-" /\ t[8] = "-" /\ t[11] = " " /\ t[14] = ":" /\ t[17] = ":"
      /\ IsDigits(SubSeq(t, 1, 4)) /\ IsDigits(SubSeq(t, 6, 7))
      /\ IsDigits(SubSeq(t, 9, 10)) /\ IsDigits(SubSeq(t, 12, 13))
      /\ IsDigits(SubSeq(t, 15, 16)) /\ IsDigits(SubSeq(t, 18, 19))
      /\ strptime(t).month \in 1..12 /\ strptime(t).day \in 1..31
      /\ strptime(t).hour \in 0..23 /\ strptime(t).minute \in 0..59
      /\ strptime(t).second \in 0..61

\* DictReader's restval, None: no text, so that int() and strptime() raise on it.
NoValue == <<"<None>">>

\* csv.DictReader: the first row gives the keys; an empty row is skipped; a row
\* shorter than the first leaves the missing keys None (fields beyond the keys,
\* which DictReader collects under the key None, are left out here).
KeyOf(f) == IF Len(f) = 1 THEN f[1] ELSE "?"
DictRow(keys, r) ==
    [k \in {KeyOf(keys[i]) : i \in 1..Len(keys)} |->
        LET i == SetMax({j \in 1..Len(keys) : KeyOf(keys[j]) = k})
        IN IF i <= Len(r) THEN r[i] ELSE NoValue]

DictReader(t) ==
    LET P == reader(t) IN
    IF P.error \/ P.rows = <<>> THEN [error |-> P.error, rows |-> <<>>]
    ELSE [error |-> FALSE,
          rows |-> LET body == SelectSeq(Tail(P.rows), LAMBDA r : r # <<>>)
                   IN [i \in 1..Len(body) |-> DictRow(Head(P.rows), body[i])]]

\* read_csv_data's loop body: size_bytes becomes an integer, modified_datetime is
\* added; a missing column is a KeyError, a text that does not convert a
\* ValueError.
RowRaises(d) ==
    \/ ~({"size_bytes", "modified_date"} \subseteq DOMAIN d)
    \/ ~IsDigits(d.size_bytes)
    \/ StrptimeRaises(d.modified_date)

ConvertRow(d) ==
    [k \in DOMAIN d \cup {"modified_datetime"} |->
        IF k = "size_bytes" THEN int(d.size_bytes)
        ELSE IF k = "modified_datetime" THEN strptime(d.modified_date)
        ELSE d[k]]

\* read_csv_data: the rows, or the failure its "except Exception" reports.
read_csv_data(text) ==
    LET D == DictReader(universal_newlines(text)) IN
    IF D.error \/ \E i \in 1..Len(D.rows) : RowRaises(D.rows[i])
    THEN [error |-> TRUE, rows |-> <<>>]
    ELSE [error |-> FALSE, rows |-> [i \in 1..Len(D.rows) |-> ConvertRow(D.rows[i])]]

\* ----------------------------- the census's CSV read back by the summary
MaxCsvChars == 3

CsvChars == {"a", "B", ".", ",", "\"", "\n", "\r"}
CsvNames == UNION {[1..n -> CsvChars] : n \in 1..MaxCsvChars}
CsvSizes == <<0, 2048, 7>>
CsvTimes == <<0, 951782400, NowValue>>
NthOf(s, i) == s[((i - 1) % Len(s)) + 1]

RECURSIVE NameLengths(_)
NameLengths(recs) ==
    IF recs = <<>> THEN 0 ELSE Len(Head(recs).filename) + NameLengths(Tail(recs))

\* create_csv_report: open(output_path, 'w', newline='') and writeheader().
CsvWriteHeader ==
    /\ program = "census" /\ pc = "main"
    /\ csvfile' = writeheader
    /\ outfile' = [exists |-> TRUE, open |-> TRUE, rows |-> <<Header>>]
    /\ pc' = "rows"
    /\ UNCHANGED <<program, show_progress, rootKind, kind, st_size, st_mtime, listing,
                   file_count, processed_count, yielded, file_info, files_written,
                   counted, exitStatus, message, interrupted, lastRaise, faulted,
                   aggVars, filename, shown, shown_again, row, columns>>

\* One turn of create_csv_report's loop: scan_folder yields the record of the next
\* file, of some name, and writer.writerow(file_info) appends its row.
CsvWriteRow ==
    /\ program = "census" /\ pc = "rows"
    /\ \E name \in CsvNames :
        LET i == Len(yielded) + 1
            info == file_info_of(name, NthOf(CsvSizes, i), NthOf(CsvTimes, i))
        IN /\ NameLengths(yielded) + Len(name) <= MaxCsvChars
           /\ yielded' = Append(yielded, info)
           /\ csvfile' = csvfile \o writerow(RowFields(info))
           /\ outfile' = [outfile EXCEPT !.rows = Append(@, info)]
    /\ processed_count' = processed_count + 1
    /\ files_written' = files_written + 1
    /\ UNCHANGED <<program, pc, show_progress, rootKind, kind, st_size, st_mtime,
                   listing, file_count, file_info, counted, exitStatus, message,
                   interrupted, lastRaise, faulted, aggVars, filename, shown,
                   shown_again, row, columns>>

\* The generator is exhausted and the with-block closes the file.
CsvClose ==
    /\ program = "census" /\ pc = "rows"
    /\ outfile' = [outfile EXCEPT !.open = FALSE]
    /\ message' = "CSV report created"
    /\ pc' = "closed"
    /\ UNCHANGED <<program, show_progress, rootKind, kind, st_size, st_mtime, listing,
                   file_count, processed_count, yielded, file_info, files_written,
                   counted, exitStatus, interrupted, lastRaise, faulted, aggVars,
                   textVars>>

\* summary_report.py's main on that file: files_data = read_csv_data(csv_file).
ReadCsvData ==
    /\ program = "census" /\ pc = "closed"
    /\ program' = "summary"
    /\ IF read_csv_data(csvfile).error
       THEN /\ pc' = "exited" /\ exitStatus' = 1
            /\ message' = "Error reading CSV file"
            /\ UNCHANGED csv_data
       ELSE /\ csv_data' = read_csv_data(csvfile).rows
            /\ pc' = "summarize"
            /\ UNCHANGED <<exitStatus, message>>
    /\ UNCHANGED <<show_progress, rootKind, kind, st_size, st_mtime, listing,
                   file_count, processed_count, yielded, file_info, files_written,
                   outfile, counted, interrupted, lastRaise, faulted, files_data,
                   subfolders_data, now, analysis, summary, percentages, textVars>>

InitCsv ==
    /\ ScanIdle /\ AggIdle /\ TextIdle
    /\ now = NowValue
    /\ program = "census"
    /\ pc = "main"

NextCsv == CsvWriteHeader \/ CsvWriteRow \/ CsvClose \/ ReadCsvData

SpecCsv == InitCsv /\ [][NextCsv]_vars

\* ------------------------------------------------------ claims: the scans
AllFiles == {e \in Entries : kind[e] = "file"}
Names(recs) == {recs[i].name : i \in 1..Len(recs)}
CensusDone == program = "census" /\ pc = "exited"
WeeklyScanned == program = "weekly" /\ pc \in {"wsub", "wemit", "analyze", "render"}

\* C1: in the census pipeline a KeyboardInterrupt in the counting pass, in the
\* generator's second pass or while a row is written always ends in a non-zero exit
\* status, the CSV closed and holding the header and exactly the rows written so far.
C1_InterruptExitsNonZero ==
    (CensusDone /\ interrupted # "none") =>
        /\ exitStatus # 0
        /\ ~outfile.open
        /\ outfile.rows = <<Header>> \o SubSeq(yielded, 1, files_written)

\* C2: an error raised for one entry by is_file(), is_dir() or stat() during a
\* traversal never fails the run: the process does not exit with status 1 on it, and
\* a scan that ran to its end reports every file on which no call raised.
C2_EntryErrorNeverFatal ==
    /\ (pc = "exited" /\ lastRaise.call \in {"is_file", "is_dir", "stat"})
           => exitStatus # 1
    /\ (program = "census" /\ pc = "finish" /\ interrupted = "none")
           => AllFiles \ faulted \subseteq Names(yielded)
    /\ WeeklyScanned => AllFiles \ faulted \subseteq Names(files_data)

\* C3: a scan root that is absent or not a directory yields no record in either
\* pipeline, no traversal starts, an error message is printed and the exit status
\* is 1, never 0.
C3_InvalidRootFails ==
    rootKind # "dir" =>
        /\ yielded = <<>> /\ files_data = <<>> /\ subfolders_data = <<>>
        /\ Len(outfile.rows) <= 1
        /\ pc \in {"main", "gen", "exited"}
        /\ pc = "exited" => (exitStatus = 1 /\ message # "none")

C3_Witness ==
    /\ program = "census" /\ rootKind = "file" /\ pc = "exited"
    /\ outfile.rows = <<Header>>

\* C4: when no call raises and nothing interrupts, the records of scan_folder, and
\* files_data of scan_downloads_folder, hold every regular file of the tree exactly
\* once and nothing else (no directory).
C4_EveryFileExactlyOnce ==
    /\ (program = "census" /\ pc \in {"finish", "exited"} /\ exitStatus # 1
            /\ faulted = {} /\ interrupted = "none")
           => /\ Names(yielded) = AllFiles
              /\ Len(yielded) = Cardinality(AllFiles)
              /\ outfile.rows = <<Header>> \o yielded
    /\ (WeeklyScanned /\ faulted = {})
           => /\ Names(files_data) = AllFiles
              /\ Len(files_data) = Cardinality(AllFiles)

C4_Witness ==
    /\ program = "census" /\ pc = "finish" /\ faulted = {} /\ interrupted = "none"
    /\ Cardinality(AllFiles) >= 2
    /\ \E e \in AllFiles : Parent(e) # Root
    /\ \E e \in Entries : kind[e] = "dir"

\* The regular files below subfolder c, and an immediate subdirectory of the root
\* whose turn in the subfolder loop is over.
FilesBelow(c) == Counted(rglob(c), {})
SubfolderDone(c) == Parent(c) = Root /\ is_dir(c) /\ c \notin SeqRange(listing)

WeeklyAnalyzed == program = "weekly" /\ pc \in {"render", "exited"} /\ analysis # <<>>
SummaryAnalyzed == program = "summary" /\ pc \in {"report", "exited"} /\ summary # <<>>
SummaryRendered == program = "summary" /\ pc = "exited"

\* C6: an empty record collection aggregates, in analyze_files and in analyze_data,
\* to total_files = 0, total_size = 0, every list empty and average_size = 0; and no
\* division by zero occurs in either aggregation or in the summary renderer's
\* percentages.
C6_EmptyInputAggregates ==
    /\ (WeeklyAnalyzed /\ files_data = <<>>) =>
           /\ analysis.total_files = 0 /\ analysis.total_size = 0
           /\ analysis.average_size = Whole(0)
           /\ analysis.largest_files = <<>> /\ analysis.recent_files = <<>>
           /\ analysis.oldest_files = <<>> /\ analysis.subfolders = <<>>
    /\ (SummaryAnalyzed /\ csv_data = <<>>) =>
           /\ summary.total_files = 0 /\ summary.total_size = 0
           /\ summary.largest_files = <<>> /\ summary.file_types = <<>>
           /\ summary.files_by_year = <<>>
           /\ SummaryRendered => (percentages = <<>> /\ message # "ZeroDivisionError")
    /\ WeeklyAnalyzed => analysis.average_size.den # 0
    /\ SummaryRendered => \A i \in 1..Len(percentages) : percentages[i].den # 0

C6_Witness ==
    /\ WeeklyAnalyzed /\ files_data = <<>> /\ subfolders_data # <<>>
    /\ analysis.average_size = Whole(0)

\* The records of a list as [id, size_bytes], id being the record's position in
\* the input (its name there).
WeeklyKeys(recs) ==
    [i \in 1..Len(recs) |-> [id |-> recs[i].name, size_bytes |-> recs[i].size_bytes]]
SummaryKeys(recs) ==
    [i \in 1..Len(recs) |-> [id |-> recs[i].filename, size_bytes |-> recs[i].size_bytes]]

\* What largest_files must be for input inp and limit n, apart from the order of
\* its sizes: min(n, Len(inp)) records of the input, none twice, equal sizes in
\* discovery order, and no record left out larger than one included.
TopOf(top, inp, n) ==
    /\ Len(top) = (IF n < Len(inp) THEN n ELSE Len(inp))
    /\ \A i \in 1..Len(top) : top[i] \in SeqRange(inp)
    /\ \A i, j \in 1..Len(top) :
         (i < j /\ top[i].size_bytes = top[j].size_bytes) => top[i].id < top[j].id
    /\ \A i, j \in 1..Len(top) : i # j => top[i].id # top[j].id
    /\ \A x \in SeqRange(inp) \ SeqRange(top) :
         \A i \in 1..Len(top) : x.size_bytes <= top[i].size_bytes

StrictlyDescending(top) ==
    \A i, j \in 1..Len(top) : i < j => top[i].size_bytes > top[j].size_bytes

NonIncreasing(top) ==
    \A i, j \in 1..Len(top) : i < j => top[i].size_bytes >= top[j].size_bytes

\* C7 as stated: largest_files is sorted strictly descending by size_bytes, equal
\* sizes in discovery order, holds min(N, number of records) records (N = 15 in
\* analyze_files, 10 in analyze_data) and leaves out no record larger than one it
\* holds.
C7_LargestStrictlyDescending ==
    /\ WeeklyAnalyzed =>
           /\ StrictlyDescending(analysis.largest_files)
           /\ TopOf(WeeklyKeys(analysis.largest_files), WeeklyKeys(files_data),
                    LargestWeekly)
    /\ SummaryAnalyzed =>
           /\ StrictlyDescending(summary.largest_files)
           /\ TopOf(SummaryKeys(summary.largest_files), SummaryKeys(csv_data),
                    LargestSummary)

\* C7, amended: largest_files is sorted by size_bytes in non-increasing order (equal
\* sizes may follow one another), equal sizes in discovery order, holds
\* min(N, number of records) records and leaves out no record larger than one it
\* holds.
C7_LargestNonIncreasingStable ==
    /\ WeeklyAnalyzed =>
           /\ NonIncreasing(analysis.largest_files)
           /\ TopOf(WeeklyKeys(analysis.largest_files), WeeklyKeys(files_data),
                    LargestWeekly)
    /\ SummaryAnalyzed =>
           /\ NonIncreasing(summary.largest_files)
           /\ TopOf(SummaryKeys(summary.largest_files), SummaryKeys(csv_data),
                    LargestSummary)

C7_Witness ==
    /\ WeeklyAnalyzed /\ Len(files_data) > LargestWeekly
    /\ Len(analysis.largest_files) = LargestWeekly
    /\ \E i \in 1..(LargestWeekly - 1) :
         analysis.largest_files[i].size_bytes = analysis.largest_files[i + 1].size_bytes
    /\ \E i \in 1..(LargestWeekly - 1) :
         analysis.largest_files[i].size_bytes > analysis.largest_files[i + 1].size_bytes

InWindow(f) == now - SevenDays <= f.modified_time /\ f.modified_time <= now

\* C8: for a non-empty input, recent_files holds exactly the records whose
\* modified_time lies in [now - 604800, now], sorted by modified_time descending; a
\* record with a time outside the window, one later than now included, is not in it.
C8_RecentWithinWindow ==
    (WeeklyAnalyzed /\ files_data # <<>>) =>
        /\ SeqRange(analysis.recent_files) = {f \in SeqRange(files_data) : InWindow(f)}
        /\ Len(analysis.recent_files)
               = Cardinality({f \in SeqRange(files_data) : InWindow(f)})
        /\ \A i, j \in 1..Len(analysis.recent_files) :
             i < j => analysis.recent_files[i].modified_time
                          >= analysis.recent_files[j].modified_time


\* ------------------------------------------------- claims: the renderers
\* The ASCII punctuation a backslash escapes in Markdown.
Punctuation == {"|", "\\", Backquote, ".", "/", "%", "(", ")", "[", "]", ":", "-"}

\* The '|' of a table row that Markdown reads as cell delimiters: those not
\* consumed by a backslash escape, a backslash escaping the punctuation after it.
RECURSIVE UnescapedPipes(_)
UnescapedPipes(s) ==
    IF s = <<>> THEN 0
    ELSE IF Head(s) = "\\" /\ Len(s) >= 2 /\ s[2] \in Punctuation
    THEN UnescapedPipes(SubSeq(s, 3, Len(s)))
    ELSE (IF Head(s) = "|" THEN 1 ELSE 0) + UnescapedPipes(Tail(s))

\* C9: whatever characters a name holds ('|' and '\' included), every table row
\* rendered for it keeps its table's column count: its only unescaped '|' are the
\* column delimiters, one more than the columns.
C9_RowKeepsColumnCount ==
    pc = "row" => UnescapedPipes(row) = columns + 1

HasLongName == Len(filename) > max_length
LastDot == IF DotsAt(filename) = {} THEN 0 ELSE SetMax(DotsAt(filename))
Extension == SubSeq(filename, LastDot + 1, Len(filename))
ShortExtension == LastDot > 0 /\ Len(Extension) <= max_length - 5
IsSuffix(t, s) == Len(t) <= Len(s) /\ SubSeq(s, Len(s) - Len(t) + 1, Len(s)) = t

\* C10: truncate_filename with the default limit returns a name of at most 40
\* characters unchanged; a longer one comes back with at most 40 characters: when
\* it has a '.' and at most 35 characters after its last '.', as a prefix of the
\* name, "..." and the extension, ending with '.' and the extension; otherwise as
\* its first 37 characters and "...", 40 characters. Truncating the result again
\* changes nothing.
C10_TruncateFilename ==
    /\ (pc \in {"shown", "shown_again"} /\ ~HasLongName) => shown = filename
    /\ (pc \in {"shown", "shown_again"} /\ HasLongName) =>
           /\ Len(shown) <= max_length
           /\ IF ShortExtension
              THEN /\ \E n \in 1..(LastDot - 1) :
                        shown = SubSeq(filename, 1, n) \o Ellipsis \o Extension
                   /\ IsSuffix(<<".">> \o Extension, shown)
              ELSE /\ shown = SubSeq(filename, 1, 37) \o Ellipsis
                   /\ Len(shown) = 40
    /\ pc = "shown_again" => shown_again = shown

C10_Witness ==
    /\ pc = "shown_again" /\ HasLongName /\ ShortExtension
    /\ Cardinality(DotsAt(filename)) = 2
    /\ Len(Extension) > 0 /\ Len(shown) < Len(filename)


\* ------------------------------------- claims: the pipelines' error paths
\* C12: the weekly-review pipeline, run on an existing directory without any file
\* and with no call raising and no interrupt, gets from analyze_files every field
\* generate_markdown_report reads and exits with status 0.
C12_EmptyFolderReportSucceeds ==
    (WeeklyAnalyzed /\ rootKind = "dir" /\ AllFiles = {}
        /\ faulted = {} /\ interrupted = "none")
    => /\ ReportKeys \subseteq DOMAIN analysis
       /\ pc = "exited" => exitStatus = 0

\* C13: when the census pipeline fails because the scan root is absent or is not a
\* directory, the output path is as it was before the run: not created, or still
\* holding its previous content.
C13_InvalidRootLeavesOutput ==
    (CensusDone /\ ScanFolderRootError(rootKind) # "none")
    => outfile \in OutfileStates


\* ------------------------------------------------- claims: the CSV bridge
HeaderLine ==
    <<"filename", ",", "full_path", ",", "size_bytes", ",", "size_formatted", ",",
      "modified_date", ",", "extension", "\r", "\n">>

IsPrefix(t, s) == Len(t) <= Len(s) /\ SubSeq(s, 1, Len(t)) = t
CsvWritten == csvfile # <<>>
CsvReadBack == CsvWritten /\ program = "summary"

\* C11: the file create_csv_report writes starts with the header row, also when no
\* record follows, and read_csv_data returns from it as many records as were
\* written, in the same order, each with the filename, the size_bytes (an integer)
\* and the extension that were written and a modified_datetime that is the
\* date-time of the record, whatever commas, quotes, line feeds or carriage
\* returns the filenames hold.
C11_CsvRoundTrip ==
    /\ CsvWritten => IsPrefix(HeaderLine, csvfile)
    /\ CsvReadBack =>
        /\ pc = "summarize"
        /\ Len(csv_data) = Len(yielded)
        /\ \A i \in 1..Len(csv_data) :
             /\ csv_data[i].filename = yielded[i].filename
             /\ csv_data[i].size_bytes = yielded[i].size_bytes
             /\ csv_data[i].extension = yielded[i].extension
             /\ csv_data[i].modified_datetime = fromtimestamp(NthOf(CsvTimes, i))

====
